---------------------------- MODULE Spec2Model ----------------------------
(***************************************************************************)
(* blipt: an interactive terminal scratchpad (src/blipt.py).               *)
(*                                                                         *)
(* Strings are sequences of characters; a character is a one-element TLA+  *)
(* string, except the tokens "sup2" (the character U+00B2, which Python's  *)
(* str.isdigit accepts and int() rejects), "HDR" (the 20 characters of     *)
(* "# Scratchpad History") and "TS" (the 19 characters of a strftime       *)
(* timestamp); none of the three contains a line break or a space.         *)
(*                                                                         *)
(* Two specifications share the handlers:                                  *)
(*   Spec     main(): the session loop of Scratchpad.run, reading lines;   *)
(*   SpecApi  the handle_* methods of a Scratchpad called directly.        *)
(***************************************************************************)
EXTENDS Integers, Sequences, FiniteSets, TLC

\* ------------------------------------------------------------------ bounds
MaxNotes == 2      \* max_notes of the modelled Scratchpad (default 100)
MaxAdds  == 3      \* accepted adds explored in one behaviour

\* ----------------------------------------------------------------- strings
UpperLetters == <<"A","B","C","D","E","F","G","H","I","J","K","L","M",
                  "N","O","P","Q","R","S","T","U","V","W","X","Y","Z">>
LowerLetters == <<"a","b","c","d","e","f","g","h","i","j","k","l","m",
                  "n","o","p","q","r","s","t","u","v","w","x","y","z">>

LowerChar(c) ==
    IF \E i \in 1..26 : UpperLetters[i] = c
    THEN LowerLetters[CHOOSE i \in 1..26 : UpperLetters[i] = c]
    ELSE c

UpperChar(c) ==
    IF \E i \in 1..26 : LowerLetters[i] = c
    THEN UpperLetters[CHOOSE i \in 1..26 : LowerLetters[i] = c]
    ELSE c

\* str.lower()
Lower(s) == [i \in 1..Len(s) |-> LowerChar(s[i])]

IsSpace(c) == c \in {" ", "\t", "\n"}

RECURSIVE LStrip(_)
LStrip(s) == IF s # <<>> /\ IsSpace(Head(s)) THEN LStrip(Tail(s)) ELSE s

RECURSIVE RStrip(_)
RStrip(s) ==
    IF s # <<>> /\ IsSpace(s[Len(s)]) THEN RStrip(SubSeq(s, 1, Len(s) - 1)) ELSE s

\* str.strip()
Strip(s) == RStrip(LStrip(s))

\* str.startswith(p)
StartsWith(s, p) == Len(s) >= Len(p) /\ SubSeq(s, 1, Len(p)) = p

\* s[n:]
Drop(s, n) == SubSeq(s, n + 1, Len(s))

\* the Python expression  q in s
IsSubstring(q, s) ==
    \E k \in 0..(Len(s) - Len(q)) : SubSeq(s, k + 1, k + Len(q)) = q

DecimalDigits == <<"0","1","2","3","4","5","6","7","8","9">>
IsDecimalChar(c) == \E i \in 1..10 : DecimalDigits[i] = c
DigitValue(c) == (CHOOSE i \in 1..10 : DecimalDigits[i] = c) - 1

\* str.isdigit(): non-empty, every character a digit; U+00B2 is one
IsDigit(s) == s # <<>> /\ \A i \in 1..Len(s) : IsDecimalChar(s[i]) \/ s[i] = "sup2"

\* int(s) raises ValueError on a digit that is not a decimal
IntRaises(s) == \E i \in 1..Len(s) : ~IsDecimalChar(s[i])

RECURSIVE IntOf(_)
IntOf(s) == IF s = <<>> THEN 0
            ELSE 10 * IntOf(SubSeq(s, 1, Len(s) - 1)) + DigitValue(s[Len(s)])

RECURSIVE Str(_)
\* str(n) of a natural number
Str(n) == IF n < 10 THEN <<DecimalDigits[n + 1]>>
          ELSE Str(n \div 10) \o <<DecimalDigits[(n % 10) + 1]>>


\* ------------------------------------------------------------------- state
VARIABLES
    notes,          \* self.notes
    history,        \* content of self.history_file
    HAS_CLIPBOARD,  \* module flag: pyperclip imported
    pc,             \* position of the program
    command,        \* run(): the stripped line get_user_input returned
    op,             \* the branch of run() taken / the method called
    text,           \* string argument of the call (add: text, search: query)
    index,          \* integer argument of the call (copy, delete)
    matches,        \* handle_search: its local list of (index, note)
    msgs,           \* what the current command printed so far
    exc,            \* the exception propagating (when pc = "raised")
    exitStatus,     \* the process's exit status (when pc = "done")
    farewell,       \* number of "Goodbye!" lines printed
    history0,       \* history: the file's content after construction
    notes0,         \* history: self.notes when the current call started
    accepted,       \* history: the texts appended to notes so far, in order
    deleted,        \* history: a delete or delete-all removed a note
    logFailures,      \* history: number of writes of log_to_history that failed
    exitCause       \* history: what ended the session

vars == <<notes, history, HAS_CLIPBOARD, pc, command, op, text,
          index, matches, msgs, exc, exitStatus, farewell, history0, notes0,
          accepted, deleted, logFailures, exitCause>>

\* ---------------------------------------------------------------- messages
\* One printed line: what it says, a number and a string it interpolates.
Msg(kind, n, t) == [kind |-> kind, n |-> n, text |-> t]

\* show_status / show_error / print
Status(kind, n, t) == Msg(kind, n, t)
Error(kind) == Msg(kind, 0, <<>>)

CountKind(s, kind) == Cardinality({i \in 1..Len(s) : s[i].kind = kind})

\* ------------------------------------------------------------ history file
Header == <<"HDR", "\n", "\n">>

\* log_to_history: the line f"- [{timestamp}] {text}\n"
HistoryEntry(t) == <<"-", " ", "[", "TS", "]", " ">> \o t \o <<"\n">>

\* open(history_file, "a").write(entry): IOError is caught and reported.
LogToHistory_Rewrite(h, t, ok) ==
    [history |-> IF ok THEN HistoryEntry(t) ELSE h,
     msgs    |-> IF ok THEN <<>> ELSE <<Error("Failed to write to history")>>,
     raised  |-> FALSE]
LogToHistory_NoCatch(h, t, ok) ==
    [history |-> IF ok THEN h \o HistoryEntry(t) ELSE h,
     msgs    |-> <<>>,
     raised  |-> ~ok]
LogToHistory(h, t, ok) ==
    [history |-> IF ok THEN h \o HistoryEntry(t) ELSE h,
     msgs    |-> IF ok THEN <<>> ELSE <<Error("Failed to write to history")>>,
     raised  |-> FALSE]

\* the lines of a file's content (each without its line break)
RECURSIVE SplitLines(_, _)
SplitLines(s, cur) ==
    IF s = <<>> THEN (IF cur = <<>> THEN <<>> ELSE <<cur>>)
    ELSE IF Head(s) = "\n" THEN <<cur>> \o SplitLines(Tail(s), <<>>)
    ELSE SplitLines(Tail(s), Append(cur, Head(s)))

Lines(content) == SplitLines(content, <<>>)

IsNoteLine(l) == StartsWith(l, <<"-", " ", "[", "TS", "]", " ">>)

NoteLines(content) ==
    LET ls == Lines(content) IN
    LET F[i \in 0..Len(ls)] ==
            IF i = 0 THEN <<>>
            ELSE IF IsNoteLine(ls[i]) THEN Append(F[i - 1], ls[i]) ELSE F[i - 1]
    IN F[Len(ls)]

\* --------------------------------------------------------------- clipboard
\* safe_clipboard_copy: what reaches the clipboard or the terminal, and the
\* result. "pyperclip.copy" is the call that stores t in the clipboard.
SafeClipboardCopy(t, has, ok) ==
    IF ~has
    THEN [ok |-> FALSE,
          msgs |-> <<Error("Clipboard not available"), Msg("Text content", 0, t)>>]
    ELSE IF ok
    THEN [ok |-> TRUE, msgs |-> <<Msg("pyperclip.copy", 0, t)>>]
    ELSE [ok |-> FALSE,
          msgs |-> <<Error("Copy failed"), Msg("Text content", 0, t)>>]

\* ------------------------------------------------------------- note store
\* handle_add: len(self.notes) >= self.max_notes
AtCapacity_OffByOne(n) == Len(n) > MaxNotes
AtCapacity(n) == Len(n) >= MaxNotes

\* self.notes.pop(0)
PopOldest_Newest(n) == SubSeq(n, 1, Len(n) - 1)
PopOldest(n) == Tail(n)

\* handle_copy / handle_delete: index < 1 or index > len(self.notes)
InvalidIndex(i, n) == i < 1 \/ i > Len(n)

\* self.notes.pop(index - 1): the list left, and the note removed
PopAt_OffByOne(n, i) ==
    [notes   |-> SubSeq(n, 1, i) \o SubSeq(n, i + 2, Len(n)),
     removed |-> n[i]]
PopAt(n, i) ==
    [notes   |-> SubSeq(n, 1, i - 1) \o SubSeq(n, i + 1, Len(n)),
     removed |-> n[i]]

\* handle_delete: deleted_note[:30] + "..." if len(deleted_note) > 30
Preview(t) == IF Len(t) > 30 THEN SubSeq(t, 1, 30) \o <<".", ".", ".">> ELSE t

\* handle_copy_all: "\n".join(f"{i+1}. {note}" for i, note in enumerate(notes))
RECURSIVE JoinNumbered(_, _)
JoinNumbered(n, i) ==
    IF i > Len(n) THEN <<>>
    ELSE (IF i > 1 THEN <<"\n">> ELSE <<>>)
         \o Str(i) \o <<".", " ">> \o n[i] \o JoinNumbered(n, i + 1)

\* handle_search: query.lower() in note.lower()
NoteMatches_CaseSensitive(q, note) == IsSubstring(q, note)
NoteMatches(q, note) == IsSubstring(Lower(q), Lower(note))

\* handle_search: the loop over enumerate(self.notes) filling matches
RECURSIVE SearchLoop(_, _, _, _)
SearchLoop(n, q, i, acc) ==
    IF i > Len(n) THEN acc
    ELSE SearchLoop(n, q, i + 1,
                    IF NoteMatches(q, n[i])
                    THEN Append(acc, [index |-> i, note |-> n[i]])
                    ELSE acc)

\* ---------------------------------------------------------------- handlers
\* A handler returns to its caller.
Return == pc' = "return"

progVars == <<notes, history>>
callVars == <<command, op, text, index, notes0>>
endVars  == <<exc, exitStatus, farewell, exitCause>>
ghostVars == <<HAS_CLIPBOARD, history0>>

\* handle_add, up to the eviction: lines 159-166
HandleAdd ==
    /\ pc = "handle_add"
    /\ IF text = <<>>
       THEN /\ msgs' = Append(msgs, Error("Cannot add empty text"))
            /\ Return
            /\ notes' = notes
       ELSE IF AtCapacity(notes)
       THEN /\ notes' = PopOldest(notes)
            /\ msgs' = Append(msgs, Status("Removed oldest note", MaxNotes, <<>>))
            /\ pc' = "add_append"
       ELSE /\ pc' = "add_append"
            /\ UNCHANGED <<notes, msgs>>
    /\ UNCHANGED <<history, matches, accepted, deleted, logFailures>>
    /\ UNCHANGED <<callVars, endVars, ghostVars>>

\* handle_add: self.notes.append(text), line 168
AddAppend ==
    /\ pc = "add_append"
    /\ notes' = Append(notes, text)
    /\ accepted' = Append(accepted, text)
    /\ pc' = "add_log"
    /\ UNCHANGED <<history, matches, msgs, deleted, logFailures>>
    /\ UNCHANGED <<callVars, endVars, ghostVars>>

\* handle_add: self.log_to_history(text) and the status line, lines 169-170
AddLog ==
    /\ pc = "add_log"
    /\ \E ok \in BOOLEAN :
          LET r == LogToHistory(history, text, ok) IN
          /\ history' = r.history
          /\ logFailures' = logFailures + (IF ok THEN 0 ELSE 1)
          /\ IF r.raised
             THEN /\ pc' = "raised"
                  /\ exc' = "IOError"
                  /\ msgs' = msgs \o r.msgs
             ELSE /\ Return
                  /\ exc' = exc
                  /\ msgs' = Append(msgs \o r.msgs,
                                    Status("Added note #", Len(notes), <<>>))
    /\ UNCHANGED <<notes, matches, accepted, deleted>>
    /\ UNCHANGED <<callVars, exitStatus, farewell, exitCause, ghostVars>>

\* handle_copy, lines 172-180
HandleCopy ==
    /\ pc = "handle_copy"
    /\ IF InvalidIndex(index, notes)
       THEN msgs' = Append(msgs, Error("Invalid note number"))
       ELSE \E ok \in BOOLEAN :
              LET r == SafeClipboardCopy(notes[index], HAS_CLIPBOARD, ok) IN
              msgs' = msgs \o r.msgs \o
                         (IF r.ok THEN <<Status("Copied note #", index, <<>>)>> ELSE <<>>)
    /\ Return
    /\ UNCHANGED <<notes, history, matches, accepted, deleted, logFailures>>
    /\ UNCHANGED <<callVars, endVars, ghostVars>>

\* handle_copy_all, lines 182-190
HandleCopyAll ==
    /\ pc = "handle_copy_all"
    /\ IF notes = <<>>
       THEN msgs' = Append(msgs, Error("Nothing to copy"))
       ELSE \E ok \in BOOLEAN :
              LET r == SafeClipboardCopy(JoinNumbered(notes, 1), HAS_CLIPBOARD, ok) IN
              msgs' = msgs \o r.msgs \o
                         (IF r.ok THEN <<Status("Copied all notes", Len(notes), <<>>)>>
                                  ELSE <<>>)
    /\ Return
    /\ UNCHANGED <<notes, history, matches, accepted, deleted, logFailures>>
    /\ UNCHANGED <<callVars, endVars, ghostVars>>

\* handle_delete, lines 192-201
HandleDelete ==
    /\ pc = "handle_delete"
    /\ IF InvalidIndex(index, notes)
       THEN /\ msgs' = Append(msgs, Error("Invalid note number"))
            /\ UNCHANGED <<notes, deleted>>
       ELSE LET r == PopAt(notes, index) IN
            /\ notes' = r.notes
            /\ deleted' = TRUE
            /\ msgs' = Append(msgs, Status("Deleted", 0, Preview(r.removed)))
    /\ Return
    /\ UNCHANGED <<history, matches, accepted, logFailures>>
    /\ UNCHANGED <<callVars, endVars, ghostVars>>

\* handle_delete_all, lines 203-211
HandleDeleteAll ==
    /\ pc = "handle_delete_all"
    /\ IF notes = <<>>
       THEN /\ msgs' = Append(msgs, Error("Nothing to delete"))
            /\ UNCHANGED <<notes, deleted>>
       ELSE /\ notes' = <<>>
            /\ deleted' = TRUE
            /\ msgs' = Append(msgs, Status("Deleted all notes", Len(notes), <<>>))
    /\ Return
    /\ UNCHANGED <<history, matches, accepted, logFailures>>
    /\ UNCHANGED <<callVars, endVars, ghostVars>>

\* handle_search up to its input(), lines 213-239
HandleSearch ==
    /\ pc = "handle_search"
    /\ IF text = <<>>
       THEN /\ msgs' = Append(msgs, Error("Please provide a search term"))
            /\ matches' = matches
            /\ Return
       ELSE LET found == SearchLoop(notes, text, 1, <<>>) IN
            /\ matches' = found
            /\ IF found = <<>>
               THEN /\ msgs' = Append(msgs, Error("No notes found containing"))
                    /\ Return
               ELSE /\ msgs' = <<Status("Found match(es)", Len(found), <<>>)>>
                    /\ pc' = "search_pause"
    /\ UNCHANGED <<progVars, accepted, deleted, logFailures>>
    /\ UNCHANGED <<callVars, endVars, ghostVars>>

\* show_help up to its input(), lines 292-318
ShowHelp ==
    /\ pc = "show_help"
    /\ msgs' = <<Status("BLIPT HELP", MaxNotes, <<>>)>>
    /\ pc' = "help_pause"
    /\ UNCHANGED <<progVars, matches, accepted, deleted, logFailures>>
    /\ UNCHANGED <<callVars, endVars, ghostVars>>

\* input() of handle_search (line 240) and show_help (line 319) returns
PressEnter ==
    /\ pc \in {"search_pause", "help_pause"}
    /\ Return
    /\ UNCHANGED <<progVars, matches, msgs, accepted, deleted, logFailures>>
    /\ UNCHANGED <<callVars, endVars, ghostVars>>

\* The caller goes on: run() loops back to redraw, a direct caller takes the
\* result. The finished call's arguments and output are dropped.
Continue ==
    /\ pc = "return"
    /\ pc' = "ready"
    /\ command' = <<>>
    /\ op' = "none"
    /\ text' = <<>>
    /\ index' = 0
    /\ matches' = <<>>
    /\ msgs' = <<>>
    /\ notes0' = notes
    /\ UNCHANGED <<progVars, accepted, deleted, logFailures, endVars, ghostVars>>

\* ------------------------------------------------------------ direct calls
\* Entering a method: its arguments, and the store as the call finds it.
Call(name, t, i, entry) ==
    /\ op' = name
    /\ text' = t
    /\ index' = i
    /\ notes0' = notes
    /\ matches' = <<>>
    /\ pc' = entry

\* the arguments the direct calls are explored with
ApiTexts == { <<>>, <<" ">>, <<"a">>, <<"A", "b">> }
ApiQueries == { <<>>, <<"A">>, <<"b">>, <<"a", "B">>, <<"x">> }
ApiIndexes == (0 - 1)..(MaxNotes + 1)

ApiAdd ==
    /\ pc = "ready"
    /\ \E t \in ApiTexts :
          /\ t # <<>> => Len(accepted) < MaxAdds
          /\ Call("add", t, 0, "handle_add")
    /\ msgs' = <<>>
    /\ UNCHANGED <<progVars, command, accepted, deleted, logFailures, endVars, ghostVars>>

ApiCopy ==
    /\ pc = "ready"
    /\ \E i \in ApiIndexes : Call("copy", <<>>, i, "handle_copy")
    /\ msgs' = <<>>
    /\ UNCHANGED <<progVars, command, accepted, deleted, logFailures, endVars, ghostVars>>

ApiCopyAll ==
    /\ pc = "ready"
    /\ Call("copy_all", <<>>, 0, "handle_copy_all")
    /\ msgs' = <<>>
    /\ UNCHANGED <<progVars, command, accepted, deleted, logFailures, endVars, ghostVars>>

ApiDelete ==
    /\ pc = "ready"
    /\ \E i \in ApiIndexes : Call("delete", <<>>, i, "handle_delete")
    /\ msgs' = <<>>
    /\ UNCHANGED <<progVars, command, accepted, deleted, logFailures, endVars, ghostVars>>

ApiDeleteAll ==
    /\ pc = "ready"
    /\ Call("delete_all", <<>>, 0, "handle_delete_all")
    /\ msgs' = <<>>
    /\ UNCHANGED <<progVars, command, accepted, deleted, logFailures, endVars, ghostVars>>

ApiSearch ==
    /\ pc = "ready"
    /\ \E q \in ApiQueries : Call("search", q, 0, "handle_search")
    /\ msgs' = <<>>
    /\ UNCHANGED <<progVars, command, accepted, deleted, logFailures, endVars, ghostVars>>

\* ---------------------------------------------------------- specifications
\* A history file a previous session left: the header and one entry.
OldHistory == Header \o HistoryEntry(<<"o", "l", "d">>)

\* Scratchpad.__init__ and init_history, lines 51-62: the file is created with
\* the header when absent, and left as it is otherwise.
Init ==
    /\ notes = <<>>
    /\ history \in {Header, OldHistory}
    /\ history0 = history
    /\ HAS_CLIPBOARD \in BOOLEAN
    /\ pc = "ready"
    /\ command = <<>>
    /\ op = "none"
    /\ text = <<>>
    /\ index = 0
    /\ matches = <<>>
    /\ msgs = <<>>
    /\ exc = "none"
    /\ exitStatus = 0
    /\ farewell = 0
    /\ notes0 = <<>>
    /\ accepted = <<>>
    /\ deleted = FALSE
    /\ logFailures = 0
    /\ exitCause = "none"

NextApi ==
    \/ ApiAdd
    \/ ApiCopy
    \/ ApiCopyAll
    \/ ApiDelete
    \/ ApiDeleteAll
    \/ ApiSearch
    \/ Continue
    \/ HandleAdd
    \/ AddAppend
    \/ AddLog
    \/ HandleCopy
    \/ HandleCopyAll
    \/ HandleDelete
    \/ HandleDeleteAll
    \/ HandleSearch
    \/ PressEnter

SpecApi == Init /\ [][NextApi]_vars

\* ------------------------------------------------------------ session loop
UpperAll(s) == [i \in 1..Len(s) |-> UpperChar(s[i])]
Capitalize(s) == [i \in 1..Len(s) |-> IF i = 1 THEN UpperChar(s[i]) ELSE s[i]]
Casings(w) == {w, UpperAll(w), Capitalize(w)}

W_exit      == <<"e", "x", "i", "t">>
W_help      == <<"h", "e", "l", "p">>
W_add       == <<"a", "d", "d">>
W_copy      == <<"c", "o", "p", "y">>
W_delete    == <<"d", "e", "l", "e", "t", "e">>
W_search    == <<"s", "e", "a", "r", "c", "h">>
W_all       == <<"a", "l", "l">>
W_copyAll   == W_copy \o <<" ">> \o W_all
W_deleteAll == W_delete \o <<" ">> \o W_all

\* what the user types after the command word
AddArgs    == { <<"a">>, <<"A", "b">>, <<" ">> }
IndexArgs  == { <<"1">>, <<"2">>, <<"1", "2">>, <<"0">>, <<"-", "1">>,
                <<"x">>, <<"sup2">>, <<" ">> }
SearchArgs == { <<"A">>, <<"x">>, <<" ">> }

WithArgs(w, args) == { w \o <<" ">> \o a : a \in args }
CasedWith(w, arg) == { c \o <<" ">> \o arg : c \in Casings(w) }

\* the lines input() returns in the explored sessions
RawLines ==
    UNION { Casings(w) : w \in {W_exit, W_help, W_copyAll, W_deleteAll} }
    \cup { W_add, W_copy, W_delete, W_search }
    \cup { <<"?">>, <<>>, <<"x">>, <<" ">> \o W_exit \o <<" ">> }
    \cup WithArgs(W_add, AddArgs) \cup CasedWith(W_add, <<"a">>)
    \cup WithArgs(W_copy, IndexArgs) \cup CasedWith(W_copy, <<"1">>)
    \cup WithArgs(W_delete, IndexArgs) \cup CasedWith(W_delete, <<"1">>)
    \cup WithArgs(W_search, SearchArgs) \cup CasedWith(W_search, <<"A">>)

\* parse_command, lines 242-251: command.split(None, 1), the first part
\* lowercased, the rest as it stands. (run() never calls it.) A line of
\* spaces only has no parts: parts[0] raises IndexError.
RECURSIVE FirstToken(_)
FirstToken(s) ==
    IF s = <<>> \/ IsSpace(Head(s)) THEN <<>> ELSE <<Head(s)>> \o FirstToken(Tail(s))

ParseCommand(cmd) ==
    LET c == LStrip(cmd)
        tok == FirstToken(c)
    IN  IF cmd = <<>>
        THEN [action |-> <<>>, args |-> <<>>, none |-> TRUE, raised |-> FALSE]
        ELSE IF c = <<>>
        THEN [action |-> <<>>, args |-> <<>>, none |-> FALSE, raised |-> TRUE]
        ELSE [action |-> Lower(tok), args |-> LStrip(Drop(c, Len(tok))),
              none |-> FALSE, raised |-> FALSE]

\* run(): an index argument, lines 272-276 and 278-282
IndexBranch(name, arg) ==
    IF IsDigit(arg)
    THEN IF IntRaises(arg)
         THEN [op |-> "ValueError", text |-> <<>>, index |-> 0]
         ELSE [op |-> name, text |-> <<>>, index |-> IntOf(arg)]
    ELSE [op |-> "usage_" \o name, text |-> <<>>, index |-> 0]

\* run(): the if/elif chain on the stripped line, lines 262-289
Dispatch(cmd) ==
    IF Lower(cmd) = W_exit
    THEN [op |-> "exit", text |-> <<>>, index |-> 0]
    ELSE IF Lower(cmd) = W_copyAll
    THEN [op |-> "copy_all", text |-> <<>>, index |-> 0]
    ELSE IF Lower(cmd) = W_deleteAll
    THEN [op |-> "delete_all", text |-> <<>>, index |-> 0]
    ELSE IF StartsWith(cmd, W_add \o <<" ">>)
    THEN [op |-> "add", text |-> Strip(Drop(cmd, 4)), index |-> 0]
    ELSE IF StartsWith(cmd, W_copy \o <<" ">>)
    THEN IndexBranch("copy", Strip(Drop(cmd, 5)))
    ELSE IF StartsWith(cmd, W_delete \o <<" ">>)
    THEN IndexBranch("delete", Strip(Drop(cmd, 7)))
    ELSE IF StartsWith(cmd, W_search \o <<" ">>)
    THEN [op |-> "search", text |-> Strip(Drop(cmd, 7)), index |-> 0]
    ELSE IF Lower(cmd) \in {W_help, <<"?">>}
    THEN [op |-> "help", text |-> <<>>, index |-> 0]
    ELSE IF cmd # <<>>
    THEN [op |-> "unknown", text |-> <<>>, index |-> 0]
    ELSE [op |-> "noop", text |-> <<>>, index |-> 0]

\* the method a branch of run() calls
Entry(name) ==
    CASE name = "add"        -> "handle_add"
      [] name = "copy"       -> "handle_copy"
      [] name = "copy_all"   -> "handle_copy_all"
      [] name = "delete"     -> "handle_delete"
      [] name = "delete_all" -> "handle_delete_all"
      [] name = "search"     -> "handle_search"
      [] name = "help"       -> "show_help"

StoreOps == {"add", "copy", "copy_all", "delete", "delete_all", "search", "help"}

\* each explored line as get_user_input() returns it, with the branch of run()
\* it takes
ParsedLines == { [command |-> Strip(l), d |-> Dispatch(Strip(l))] : l \in RawLines }

\* One iteration of run() up to the branch taken: redraw(), then
\* get_user_input() returns input(prompt).strip(), lines 259-260 and 137.
\* The four Read actions are the four kinds of branch.

\* run(): break, then main() returns, lines 262-263
ReadExit ==
    /\ pc = "ready"
    /\ \E p \in ParsedLines :
          /\ p.d.op = "exit"
          /\ command' = p.command
    /\ op' = "exit"
    /\ pc' = "done"
    /\ exitStatus' = 0
    /\ exitCause' = "exit"
    /\ msgs' = <<>>
    /\ UNCHANGED <<progVars, text, index, matches, notes0>>
    /\ UNCHANGED <<accepted, deleted, logFailures, exc, farewell, ghostVars>>

\* run(): a branch that calls a method of the store, or show_help
ReadCall ==
    /\ pc = "ready"
    /\ \E p \in ParsedLines :
          /\ p.d.op \in StoreOps
          /\ (p.d.op = "add" /\ p.d.text # <<>>) => Len(accepted) < MaxAdds
          /\ command' = p.command
          /\ Call(p.d.op, p.d.text, p.d.index, Entry(p.d.op))
    /\ msgs' = <<>>
    /\ UNCHANGED <<progVars, accepted, deleted, logFailures, endVars, ghostVars>>

\* run(): the branches that only print, lines 276, 282, 289, and the empty line
ReadError ==
    /\ pc = "ready"
    /\ \E p \in ParsedLines :
          /\ p.d.op \in {"usage_copy", "usage_delete", "unknown", "noop"}
          /\ command' = p.command
          /\ op' = p.d.op
          /\ msgs' = IF p.d.op = "noop" THEN <<>>
                     ELSE IF p.d.op = "unknown" THEN <<Error("Unknown command")>>
                     ELSE <<Error("Usage")>>
    /\ Return
    /\ UNCHANGED <<progVars, text, index, matches, notes0>>
    /\ UNCHANGED <<accepted, deleted, logFailures, endVars, ghostVars>>

\* run(): int(arg) raises ValueError, lines 274 and 280
ReadRaise ==
    /\ pc = "ready"
    /\ \E p \in ParsedLines :
          /\ p.d.op = "ValueError"
          /\ command' = p.command
    /\ op' = "ValueError"
    /\ pc' = "raised"
    /\ exc' = "ValueError"
    /\ exitCause' = "fault"
    /\ msgs' = <<>>
    /\ UNCHANGED <<progVars, text, index, matches, notes0>>
    /\ UNCHANGED <<accepted, deleted, logFailures, exitStatus, farewell, ghostVars>>

\* get_user_input(): EOFError or KeyboardInterrupt at the prompt prints the
\* farewell and returns "exit", lines 138-140; run() then breaks
PromptEnd ==
    /\ pc = "ready"
    /\ \E cause \in {"eof", "interrupt"} : exitCause' = cause
    /\ farewell' = farewell + 1
    /\ command' = W_exit
    /\ op' = Dispatch(W_exit).op
    /\ pc' = "done"
    /\ exitStatus' = 0
    /\ msgs' = <<>>
    /\ UNCHANGED <<progVars, text, index, matches, notes0>>
    /\ UNCHANGED <<accepted, deleted, logFailures, exc, ghostVars>>

\* input() of handle_search or show_help meets end-of-input: EOFError
PauseEOF ==
    /\ pc \in {"search_pause", "help_pause"}
    /\ pc' = "raised"
    /\ exc' = "EOFError"
    /\ exitCause' = "eof"
    /\ UNCHANGED <<progVars, callVars, matches, msgs>>
    /\ UNCHANGED <<accepted, deleted, logFailures, exitStatus, farewell, ghostVars>>

\* SIGINT outside get_user_input: while input() of handle_search or show_help
\* blocks, or in handle_add between the eviction and the append (the
\* time.sleep of show_status, line 166)
Interrupt ==
    /\ pc \in {"search_pause", "help_pause", "add_append"}
    /\ pc' = "raised"
    /\ exc' = "KeyboardInterrupt"
    /\ exitCause' = "interrupt"
    /\ UNCHANGED <<progVars, callVars, matches, msgs>>
    /\ UNCHANGED <<accepted, deleted, logFailures, exitStatus, farewell, ghostVars>>

\* main(): the except clauses, lines 327-331
MainExcept ==
    /\ pc = "raised"
    /\ pc' = "done"
    /\ IF exc = "KeyboardInterrupt"
       THEN /\ farewell' = farewell + 1
            /\ exitStatus' = 0
            /\ msgs' = msgs
       ELSE /\ farewell' = farewell
            /\ exitStatus' = 1
            /\ msgs' = Append(msgs, Error("Unexpected error"))
    /\ UNCHANGED <<progVars, callVars, matches, exc, exitCause>>
    /\ UNCHANGED <<accepted, deleted, logFailures, ghostVars>>

Next ==
    \/ ReadExit
    \/ ReadCall
    \/ ReadError
    \/ ReadRaise
    \/ PromptEnd
    \/ HandleAdd
    \/ AddAppend
    \/ AddLog
    \/ HandleCopy
    \/ HandleCopyAll
    \/ HandleDelete
    \/ HandleDeleteAll
    \/ HandleSearch
    \/ ShowHelp
    \/ PressEnter
    \/ PauseEOF
    \/ Interrupt
    \/ MainExcept
    \/ Continue

Spec == Init /\ [][Next]_vars

\* ------------------------------------------------------------------ claims
CallDone(name) == pc = "return" /\ op = name

\* C1: the store never holds more than max_notes notes, in every state the
\* direct calls reach, the state between eviction and append included.
C1_SizeBound == Len(notes) <= MaxNotes

\* C1 witness: inside handle_add of a full store, after the eviction and
\* before the append.
C1_Witness ==
    /\ pc = "add_append"
    /\ Len(notes0) = MaxNotes
    /\ Len(notes) = MaxNotes - 1

LastN(s, n) == IF Len(s) > n THEN SubSeq(s, Len(s) - n + 1, Len(s)) ELSE s

\* C2: eviction is FIFO. A finished add of non-empty text to a full store has
\* dropped the note at index 1, moved every other note down one index, put the
\* text last, reported len(notes) as its index and printed the eviction notice
\* once; below capacity it only appended and printed no notice. With no
\* delete, the store is the last max_notes accepted texts in order.
C2_FifoEviction ==
    /\ (CallDone("add") /\ text # <<>>) =>
          /\ notes[Len(notes)] = text
          /\ msgs[Len(msgs)] = Msg("Added note #", Len(notes), <<>>)
          /\ IF Len(notes0) = MaxNotes
             THEN /\ Len(notes) = MaxNotes
                  /\ \A i \in 1..(Len(notes0) - 1) : notes[i] = notes0[i + 1]
                  /\ CountKind(msgs, "Removed oldest note") = 1
             ELSE /\ Len(notes) = Len(notes0) + 1
                  /\ \A i \in 1..Len(notes0) : notes[i] = notes0[i]
                  /\ CountKind(msgs, "Removed oldest note") = 0
    /\ (pc \in {"ready", "return"} /\ ~deleted) => notes = LastN(accepted, MaxNotes)

\* C2 witness: more than max_notes adds and no delete; the add just finished
\* evicted a note that differs from the one that moved to index 1.
C2_Witness ==
    /\ CallDone("add")
    /\ ~deleted
    /\ Len(accepted) > MaxNotes
    /\ Len(notes0) = MaxNotes
    /\ notes0[1] # notes0[2]

\* C3: an add whose text is empty after trimming leaves the store and the
\* history file unchanged, also when handle_add is called directly.
C3_BlankAddRejected ==
    [][(op = "add" /\ Strip(text) = <<>>) => (notes' = notes /\ history' = history)]_vars

InRange(i, n) == 1 <= i /\ i <= Len(n)

C6_CleanExit ==
    pc = "done" =>
       /\ exitCause \in {"exit", "eof", "interrupt"} => (farewell >= 1 /\ exitStatus = 0)
       /\ exitStatus = 1 => exitCause = "fault"

\* the line with its command word lowercased (the word as parse_command finds
\* it; both words of copy all / delete all)
LowerCommandWord(cmd) ==
    IF Lower(cmd) \in {W_copyAll, W_deleteAll} THEN Lower(cmd)
    ELSE LET w == ParseCommand(cmd).action IN w \o Drop(cmd, Len(w))

\* C7: a line takes the branch, with the argument, that the same line with its
\* command word in lowercase takes.
C7_CaseInsensitiveCommand ==
    pc # "ready" =>
       LET d == Dispatch(LowerCommandWord(command)) IN
       /\ op = d.op
       /\ text = d.text
       /\ index = d.index

IsPositiveInteger(arg) ==
    /\ arg # <<>>
    /\ \A i \in 1..Len(arg) : IsDecimalChar(arg[i])
    /\ \E i \in 1..Len(arg) : arg[i] # "0"

\* C8: run() calls handle_copy / handle_delete only with an index >= 1; any
\* other argument of copy / delete gives a usage error and no call.
C8_IndexValidated ==
    /\ pc \in {"handle_copy", "handle_delete"} => index >= 1
    /\ \A w \in {W_copy, W_delete} :
          (/\ pc # "ready"
           /\ StartsWith(command, w \o <<" ">>)
           /\ Lower(command) \notin {W_copyAll, W_deleteAll}
           /\ ~IsPositiveInteger(Strip(Drop(command, Len(w)))))
          => (op \in {"usage_copy", "usage_delete"} /\ notes = notes0)

\* C9: a failed history write never aborts an add. No IOError propagates;
\* every finished add of non-empty text, logged or not, has the text as the
\* last note and printed its index last, a failure showing only as a message;
\* the loop goes on, so a session that ends during an add ends by an interrupt.
C9_HistoryFailureTolerated ==
    /\ exc # "IOError"
    /\ (CallDone("add") /\ text # <<>>) =>
          /\ notes # <<>>
          /\ notes[Len(notes)] = text
          /\ msgs[Len(msgs)] = Msg("Added note #", Len(notes), <<>>)
          /\ exitCause = "none"
    /\ (op = "add" /\ pc \in {"raised", "done"}) => exitCause = "interrupt"
    /\ pc # "add_log" =>
          Len(NoteLines(history)) = Len(NoteLines(history0)) + Len(accepted) - logFailures

\* C9 witness: an add to a full store finished although its write failed.
C9_Witness ==
    /\ CallDone("add")
    /\ Len(notes0) = MaxNotes
    /\ CountKind(msgs, "Failed to write to history") = 1
    /\ notes[Len(notes)] = text

SameLetter(a, b) ==
    \/ a = b
    \/ \E i \in 1..26 : {a, b} = {UpperLetters[i], LowerLetters[i]}

ContainsIgnoringCase(s, q) ==
    \E k \in 0..(Len(s) - Len(q)) : \A j \in 1..Len(q) : SameLetter(s[k + j], q[j])

\* C10: search with a non-empty query finds exactly the notes containing the
\* query ignoring case, in store order, each with its current index; it leaves
\* the store alone; an empty query is refused and no match is reported as such.
C10_Search ==
    (op = "search" /\ pc \in {"search_pause", "return"}) =>
       /\ notes = notes0
       /\ IF text = <<>>
          THEN /\ matches = <<>>
               /\ msgs = <<Error("Please provide a search term")>>
               /\ pc = "return"
          ELSE /\ \A k \in 1..Len(matches) :
                     /\ InRange(matches[k].index, notes)
                     /\ matches[k].note = notes[matches[k].index]
                     /\ \A j \in 1..(k - 1) : matches[j].index < matches[k].index
               /\ {matches[k].index : k \in 1..Len(matches)} =
                     {i \in 1..Len(notes) : ContainsIgnoringCase(notes[i], text)}
               /\ IF matches = <<>>
                  THEN /\ msgs = <<Error("No notes found containing")>>
                       /\ pc = "return"
                  ELSE msgs = <<Msg("Found match(es)", Len(matches), <<>>)>>

\* C10 witness: after a delete, a query finds two notes, one of them only by
\* ignoring case.
C10_Witness ==
    /\ op = "search"
    /\ pc = "search_pause"
    /\ deleted
    /\ Len(matches) = 2
    /\ \E k \in 1..2 : ~IsSubstring(text, matches[k].note)

=============================================================================
